---- MODULE Spec2Model ----
(***************************************************************************)
(* mirrorman: one mirror pair (source tree, mirror tree, state record) and *)
(* the passes of Database::sync over it.                                   *)
(*                                                                         *)
(* A path is a sequence of components; a component is <<stem, extension>>  *)
(* with extension "" when the name has none.  A filesystem maps every path *)
(* of a fixed universe to a node [kind, bytes].                            *)
(***************************************************************************)
EXTENDS Integers, Sequences, FiniteSets, TLC

\* Bounds of the exploration.
MaxPasses == 2
MaxEdits == 1
MaxEntries == 3
MaxComponents == 2

\* File contents a source file may hold.
Bytes == {1, 2}

---------------------------------------------------------------------------
\* Paths.

source_path == << <<"src", "">> >>
mirror_path == << <<"out", "">> >>

RelFiles == { << <<"a", "md">> >>,
              << <<"a", "html">> >>,
              << <<"p", "md">>, <<"c", "txt">> >> }
RelDirs == { << >>, << <<"p", "md">> >> }

SrcFiles == { source_path \o r : r \in RelFiles }
SrcDirs == { source_path \o r : r \in RelDirs }
SrcPaths == SrcFiles \cup SrcDirs

\* Every mirror path a pass can name: the relative paths above, and the
\* ones an extension rewrite turns them into.
MirrorPaths == { mirror_path \o r : r \in RelFiles \cup RelDirs }
                 \cup { mirror_path \o << <<"p", "html">> >> }

Parent(p) == SubSeq(p, 1, Len(p) - 1)
IsPrefix(a, b) == Len(a) <= Len(b) /\ SubSeq(b, 1, Len(a)) = a
IsUnder(a, b) == Len(a) < Len(b) /\ IsPrefix(a, b)

\* Path::extension: the extension of the last component, "" for None.
extension(p) == IF Len(p) = 0 THEN "" ELSE p[Len(p)][2]

\* PathBuf::set_extension: only the last component's extension changes.
set_extension(p, ext) ==
    IF Len(p) = 0 THEN p ELSE [p EXCEPT ![Len(p)] = <<p[Len(p)][1], ext>>]

\* mirror_path.join(source_entry.components().skip(parts))
mirror_join(entry) ==
    mirror_path \o SubSeq(entry, Len(source_path) + 1, Len(entry))

---------------------------------------------------------------------------
\* Filesystem nodes.

Absent == [kind |-> "absent", bytes |-> 0]
Dir == [kind |-> "dir", bytes |-> 0]
File(b) == [kind |-> "file", bytes |-> b]

exists(fs, p) == p \in DOMAIN fs /\ fs[p].kind # "absent"
is_dir(fs, p) == p \in DOMAIN fs /\ fs[p].kind = "dir"
is_file(fs, p) == p \in DOMAIN fs /\ fs[p].kind = "file"

\* std::fs::create_dir_all: every missing ancestor and the path itself
\* become directories.
create_dir_all(fs, p) ==
    [q \in DOMAIN fs |->
        IF IsPrefix(q, p) /\ fs[q].kind = "absent" THEN Dir ELSE fs[q]]

\* std::fs::remove_dir_all / remove_file: the entry and all below it go.
RemoveTree(fs, p) ==
    [q \in DOMAIN fs |-> IF IsPrefix(p, q) THEN Absent ELSE fs[q]]

\* A tree is well formed when every present entry's parent is a directory.
WellFormed(fs, root) ==
    /\ fs[root].kind = "dir"
    /\ \A p \in DOMAIN fs :
          (p # root /\ fs[p].kind # "absent") => fs[Parent(p)].kind = "dir"

---------------------------------------------------------------------------
\* hash_file: SHA-256 of the bytes, Crockford base-32 encoded.  Distinct
\* contents have distinct digests (no collision is modelled).
hash_file(bytes) == <<"sha256", bytes>>

---------------------------------------------------------------------------
\* Filter programs (external executables).  FilterExt is the outcome of
\* `filter ext <extension>`: whether the program could be spawned, whether
\* it exited zero, whether its standard output is valid UTF-8, and that
\* output trimmed.  "A" turns md into html, "B" keeps md, "U" exits zero for
\* every extension but prints bytes that are no UTF-8, "X" is no executable.
FilterExt(f, ext) ==
    CASE f = "A" /\ ext = "md" ->
            [spawned |-> TRUE, success |-> TRUE, utf8 |-> TRUE, out |-> "html"]
      [] f = "B" /\ ext = "md" ->
            [spawned |-> TRUE, success |-> TRUE, utf8 |-> TRUE, out |-> "md"]
      [] f = "U" ->
            [spawned |-> TRUE, success |-> TRUE, utf8 |-> FALSE, out |-> ""]
      [] f = "X" ->
            [spawned |-> FALSE, success |-> FALSE, utf8 |-> FALSE, out |-> ""]
      [] OTHER ->
            [spawned |-> TRUE, success |-> FALSE, utf8 |-> TRUE, out |-> ""]

\* The closure of filters.iter().find(..): true when the program was
\* spawned, exited zero and printed valid UTF-8.
Matches(q) == q.spawned /\ q.success /\ q.utf8

\* What a successful `filter run` writes for source bytes b.
FilterOutput(f, b) == IF f = "A" THEN 10 + b ELSE 20 + b

\* What a filter that failed half way may have left behind.
PartialBytes == 99

FilterLists == { << >>, <<"A", "B">>, <<"X", "U", "B", "A">> }

\* A search that keeps querying after a match: the last claiming filter
\* wins.
RECURSIVE find_from_last_match(_, _, _, _)
find_from_last_match(ext, mirror, fl, i) ==
    IF i > Len(fl)
    THEN [filter |-> "", mirror |-> mirror, queried |-> << >>]
    ELSE LET q == FilterExt(fl[i], ext)
             r == find_from_last_match(ext, mirror, fl, i + 1)
         IN  IF Matches(q) /\ r.filter = ""
             THEN [filter |-> fl[i],
                   mirror |-> set_extension(mirror, q.out),
                   queried |-> <<fl[i]>> \o r.queried]
             ELSE [r EXCEPT !.queried = <<fl[i]>> \o @]

\* The filters queried after position i when the first match is looked for.
RECURSIVE find_from(_, _, _, _)
find_from(ext, mirror, fl, i) ==
    IF i > Len(fl)
    THEN [filter |-> "", mirror |-> mirror, queried |-> << >>]
    ELSE LET q == FilterExt(fl[i], ext) IN
         IF Matches(q)
         THEN [filter |-> fl[i],
               mirror |-> set_extension(mirror, q.out),
               queried |-> <<fl[i]>>]
         ELSE LET r == find_from(ext, mirror, fl, i + 1) IN
              [r EXCEPT !.queried = <<fl[i]>> \o @]

\* find_filter_for_entry: None (filter "") when the entry has no extension;
\* otherwise the first filter whose query succeeds, which rewrites the
\* mirror entry's extension.
find_filter_for_entry(entry, mirror, fl) ==
    IF extension(entry) = ""
    THEN [filter |-> "", mirror |-> mirror, queried |-> << >>]
    ELSE find_from(extension(entry), mirror, fl, 1)

---------------------------------------------------------------------------
\* Maps (BTreeMap) as functions; the empty map is the empty function.
EmptyMap == << >>

insert(map, k, v) ==
    [q \in DOMAIN map \cup {k} |-> IF q = k THEN v ELSE map[q]]

\* A skip test that forgets to look at the mirror.
unchanged_without_mirror_check(prev, source, digest, mirror_exists) ==
    /\ source \in DOMAIN prev
    /\ digest = prev[source]

\* The skip test of handle_file_entry: a previous hash is stored for the
\* source, the mirror exists, and the digest equals the previous hash.
unchanged(prev, source, digest, mirror_exists) ==
    /\ source \in DOMAIN prev
    /\ mirror_exists
    /\ digest = prev[source]

\* A run_filter_for_entry that copies the source over when the filter fails.
run_filter_with_fallback_copy(bytes, mirror, filter, fs) ==
    LET cleared == IF exists(fs, mirror)
                   THEN [fs EXCEPT ![mirror] = Absent] ELSE fs
    IN  { [dst |-> [cleared EXCEPT ![mirror] = File(FilterOutput(filter, bytes))],
           by |-> filter, outcome |-> "success", stale |-> FALSE],
          [dst |-> [cleared EXCEPT ![mirror] = File(bytes)],
           by |-> filter, outcome |-> "exit_failure", stale |-> FALSE],
          [dst |-> [cleared EXCEPT ![mirror] = File(bytes)],
           by |-> filter, outcome |-> "spawn_failure", stale |-> FALSE] }

\* run_filter_for_entry: a mirror in the way is removed (a failed removal is
\* logged and the filter runs all the same); then `filter run source mirror`
\* is spawned.  The result is never an Err: every failure is only logged.
\* Each outcome: the mirror tree after it, the program invoked, how the
\* invocation ended, and whether a stale mirror was still there when the
\* filter was invoked.
run_filter_for_entry(bytes, mirror, filter, fs) ==
    LET removals ==
            IF exists(fs, mirror)
            THEN { [fs |-> [fs EXCEPT ![mirror] = Absent], stale |-> FALSE],
                   [fs |-> fs, stale |-> TRUE] }
            ELSE { [fs |-> fs, stale |-> FALSE] }
        runs(r) ==
            { [dst |-> [r.fs EXCEPT ![mirror] = File(FilterOutput(filter, bytes))],
               by |-> filter, outcome |-> "success", stale |-> r.stale],
              [dst |-> r.fs,
               by |-> filter, outcome |-> "exit_failure", stale |-> r.stale],
              [dst |-> [r.fs EXCEPT ![mirror] = File(PartialBytes)],
               by |-> filter, outcome |-> "exit_failure", stale |-> r.stale],
              [dst |-> r.fs,
               by |-> filter, outcome |-> "spawn_failure", stale |-> r.stale] }
    IN  UNION { runs(r) : r \in removals }

\* handle_file_entry: every way the call can end.  result is "ok" for
\* Ok(()), otherwise the call that returned the Err.  act is what was done
\* for the mirror: "none", "skip", "copy" or "run".
handle_file_entry(prev, nh, filter, source, mirror, bytes, fs) ==
    LET made == create_dir_all(fs, Parent(mirror))
        digest == hash_file(bytes)
        nh1 == insert(nh, source, digest)
        mkdir_err ==
            IF is_dir(fs, Parent(mirror)) THEN {}
            ELSE { [dst |-> fs, new_hashes |-> nh, result |-> "create_dir_all",
                    act |-> "none", by |-> "", outcome |-> "", stale |-> FALSE] }
        hash_err ==
            { [dst |-> made, new_hashes |-> nh, result |-> "hash_file",
               act |-> "none", by |-> "", outcome |-> "", stale |-> FALSE] }
        rest ==
            IF unchanged(prev, source, digest, exists(made, mirror))
            THEN { [dst |-> made, new_hashes |-> nh1, result |-> "ok",
                    act |-> "skip", by |-> "", outcome |-> "",
                    stale |-> FALSE] }
            ELSE IF filter # ""
            THEN { [dst |-> r.dst, new_hashes |-> nh1, result |-> "ok",
                    act |-> "run", by |-> r.by, outcome |-> r.outcome,
                    stale |-> r.stale] :
                   r \in run_filter_for_entry(bytes, mirror, filter, made) }
            ELSE { [dst |-> [made EXCEPT ![mirror] = File(bytes)],
                    new_hashes |-> nh1, result |-> "ok",
                    act |-> "copy", by |-> "", outcome |-> "success",
                    stale |-> FALSE],
                   [dst |-> made, new_hashes |-> nh1, result |-> "copy",
                    act |-> "copy", by |-> "", outcome |-> "failure",
                    stale |-> FALSE],
                   [dst |-> [made EXCEPT ![mirror] = File(PartialBytes)],
                    new_hashes |-> nh1, result |-> "copy",
                    act |-> "copy", by |-> "", outcome |-> "failure",
                    stale |-> FALSE] }
    IN  mkdir_err \cup hash_err \cup rest

\* handle_dir_entry: create_dir_all is called on the SOURCE path, which
\* exists; the mirror tree is not written.
handle_dir_entry(source, mirror, fs) == fs

\* WalkDir over a tree: every present entry, the root first.  When the
\* directory `bad` cannot be read, it yields that directory, then an Err in
\* place of its contents, and nothing below it.  NoPath stands for "no
\* error".
NoPath == << >>

WalkDir(fs, root, bad) ==
    { [ok |-> TRUE, path |-> p] :
        p \in { q \in DOMAIN fs : exists(fs, q) /\ IsPrefix(root, q)
                                   /\ (bad = NoPath \/ ~IsUnder(bad, q)) } }
    \cup (IF bad = NoPath THEN {} ELSE { [ok |-> FALSE, path |-> bad] })

\* Database::cleanup on a walk that meets no error: entries are visited
\* parents first; an entry that is not in the mirror list is removed, a
\* directory with all below it.
RECURSIVE cleanup_walk(_, _, _)
cleanup_walk(fs, todo, list) ==
    IF todo = {} THEN fs
    ELSE LET p == CHOOSE q \in todo : \A r \in todo : Len(q) <= Len(r)
             fs1 == IF exists(fs, p) /\ p \notin list
                    THEN RemoveTree(fs, p) ELSE fs
         IN  cleanup_walk(fs1, todo \ {p}, list)

cleanup(fs, list) ==
    cleanup_walk(fs, { p \in DOMAIN fs : IsPrefix(mirror_path, p) }, list)

\* The entries Database::cleanup would remove one by one.
Orphans(fs, list) == { p \in DOMAIN fs : exists(fs, p) /\ p \notin list }

---------------------------------------------------------------------------
\* database_path_from_mirror.  Here a path is the sequence of its
\* components as Path::components yields them, a component a sequence of
\* characters.  "0xFF" is a byte that is no valid Unicode, "U+00C9" an
\* upper-case letter outside ASCII, "TAB" a whitespace character that is
\* no space; <<"/">> is the root component.

NameChars == {"A", "b", "."}

Names ==
    { <<c>> : c \in NameChars }
      \cup { <<c, d>> : c \in NameChars, d \in NameChars }
      \cup { <<"/">>, <<"0xFF">>, <<"U+00C9">>, <<" ", "b">>, <<"TAB", "b">> }

\* The root and the current directory are components only in front.
MirrorArgs ==
    { cs \in UNION { [1..n -> Names] : n \in 0..MaxComponents } :
        \A i \in 2..Len(cs) : cs[i] \notin { <<"/">>, <<".">> } }

\* OsString::into_string: Ok when every byte is valid Unicode.
into_string_ok(c) == \A i \in 1..Len(c) : c[i] # "0xFF"

\* to_ascii_lowercase: only ASCII letters change.
to_ascii_lowercase(c) ==
    [i \in 1..Len(c) |-> IF c[i] = "A" THEN "a" ELSE c[i]]

\* Iterator::reduce(|a, b| format!("{0} {1}", a, b)) on a non-empty list.
RECURSIVE reduce(_)
reduce(cs) ==
    IF Len(cs) = 1 THEN cs[1]
    ELSE reduce(<< cs[1] \o <<" ">> \o cs[2] >> \o SubSeq(cs, 3, Len(cs)))

\* str::replace for one-character patterns.
replace(str, from, to) ==
    [i \in 1..Len(str) |-> IF str[i] = from THEN to ELSE str[i]]

is_whitespace(c) == c \in {" ", "TAB"}

\* str::trim: leading and trailing whitespace goes.
RECURSIVE trim_start(_)
trim_start(str) ==
    IF str # << >> /\ is_whitespace(str[1]) THEN trim_start(Tail(str)) ELSE str

RECURSIVE trim_end(_)
trim_end(str) ==
    IF str # << >> /\ is_whitespace(str[Len(str)])
    THEN trim_end(SubSeq(str, 1, Len(str) - 1)) ELSE str

trim(str) == trim_end(trim_start(str))

Extension == <<".", "m", "m", "d", "b">>

\* A derivation that forgets to trim.
database_path_from_mirror_untrimmed(path) ==
    LET kept == SelectSeq(path, into_string_ok)
        lower == [i \in 1..Len(kept) |-> to_ascii_lowercase(kept[i])]
    IN  IF lower = << >>
        THEN [ok |-> FALSE, path |-> << >>]
        ELSE [ok |-> TRUE,
              path |-> replace(replace(replace(reduce(lower), "/", " "),
                                       ".", " "), " ", "_") \o Extension]

\* database_path_from_mirror: an Err when no component is left to join.
database_path_from_mirror(path) ==
    LET kept == SelectSeq(path, into_string_ok)
        lower == [i \in 1..Len(kept) |-> to_ascii_lowercase(kept[i])]
    IN  IF lower = << >>
        THEN [ok |-> FALSE, path |-> << >>]
        ELSE [ok |-> TRUE,
              path |-> replace(trim(replace(replace(reduce(lower), "/", " "),
                                            ".", " ")), " ", "_") \o Extension]

NotDerived == [ok |-> FALSE, path |-> <<"?">>]

---------------------------------------------------------------------------
VARIABLES
    src_fs,         \* the source tree
    dst_fs,         \* the mirror tree
    filters,        \* Database.filters
    hashes,         \* Database.hashes of the loaded database
    disk,           \* the state record on disk
    phase,          \* where Database::sync stands
    source_entries, \* entries of the walk not yet handed to a worker
    new_hashes,     \* the pass's fresh hash map
    mirror_list,    \* the pass's mirror list
    error,          \* the first Err a worker returned, "" for none
    log,            \* what the pass did per source entry (history)
    start_hashes,   \* Database.hashes when the pass started (history)
    start_dst,      \* the mirror tree when the pass started (history)
    start_disk,     \* the state record when the pass started (history)
    walk_error,     \* the directory the walk could not read (history)
    prev_done,      \* the pass before this one returned Ok (history)
    prev_clean,     \* ... and every copy and filter run of it succeeded
    prev_failed,    \* files whose copy or filter run failed in it (history)
    edits,          \* source paths edited since the last pass (history)
    pass_edits,     \* edits the running pass started with (history)
    passes,         \* passes started
    nedits,         \* edits made
    mirror_arg,     \* the mirror path a record path is derived from
    database_path,  \* the record path derived from it
    cwd,            \* the process's current directory
    old_dir         \* Database::sync's old_dir

vars == <<src_fs, dst_fs, filters, hashes, disk, phase, source_entries,
          new_hashes, mirror_list, error, log, start_hashes, start_dst,
          start_disk, walk_error, prev_done, prev_clean, prev_failed, edits,
          pass_edits, passes, nedits, mirror_arg, database_path, cwd, old_dir>>

NoRecord == [state |-> "missing", hashes |-> EmptyMap]

\* The directory a command is started from.
StartDir == "start"

\* The record paths a command passes to Database::sync, as folder and
\* file name: the bare file name database_path_from_mirror derives, and a
\* record named with the folder it lies in.
DerivedRecord == [folder |-> "", name |-> "out.mmdb"]

RecordPaths == {DerivedRecord, [folder |-> "folder", name |-> "out.mmdb"]}

\* database_path.parent(): empty for a bare file name.
parent(path) == path.folder

DatabaseFolders == { parent(path) : path \in RecordPaths }

\* The current directory after lines 61-67: left alone when the folder is
\* empty, the folder otherwise.
set_current_dir(dir, database_folder) ==
    IF database_folder = "" THEN dir ELSE database_folder

\* Database::new: a database with no hashes.
Database_new == [hashes |-> EmptyMap]

\* The record Database::save writes for a database.
Record(h) == [state |-> "ok", hashes |-> h]

SourceTrees ==
    { fs \in [SrcPaths -> {Absent, Dir} \cup { File(b) : b \in {1} }] :
        /\ WellFormed(fs, source_path)
        /\ \A p \in SrcFiles : fs[p].kind # "dir"
        /\ \A p \in SrcDirs : fs[p].kind # "file" }

\* The trees a run starts from: at most MaxEntries entries, the root among
\* them.
InitialTrees ==
    { fs \in SourceTrees :
        Cardinality({ p \in SrcPaths : exists(fs, p) }) <= MaxEntries }

\* No source directory at all.
NoSource == [p \in SrcPaths |-> Absent]

\* The mirror directory before the pair is initialised: empty, or holding a
\* file from elsewhere.
EmptyMirror == [p \in MirrorPaths |-> IF p = mirror_path THEN Dir ELSE Absent]

InitialMirrors ==
    { EmptyMirror,
      [EmptyMirror EXCEPT ![mirror_path \o << <<"a", "html">> >>] = File(2)] }

Init ==
    /\ src_fs \in InitialTrees \cup {NoSource}
    /\ dst_fs \in InitialMirrors
    /\ filters \in FilterLists
    /\ hashes = EmptyMap
    /\ disk \in {NoRecord, Record(EmptyMap)}
    /\ phase = "uninit"
    /\ source_entries = {}
    /\ new_hashes = EmptyMap
    /\ mirror_list = {}
    /\ error = ""
    /\ log = EmptyMap
    /\ start_hashes = EmptyMap
    /\ start_dst = dst_fs
    /\ start_disk = disk
    /\ walk_error = NoPath
    /\ prev_done = FALSE
    /\ prev_clean = FALSE
    /\ prev_failed = {}
    /\ edits = {}
    /\ pass_edits = {}
    /\ passes = 0
    /\ nedits = 0
    /\ mirror_arg = << >>
    /\ database_path = NotDerived
    /\ cwd = StartDir
    /\ old_dir = StartDir

---------------------------------------------------------------------------
\* Between passes.

\* An edit is made after one pass and before another.
BetweenPasses ==
    phase = "idle" /\ 1 <= passes /\ passes < MaxPasses /\ nedits < MaxEdits

EnvUnchanged ==
    UNCHANGED <<filters, hashes, disk, phase, source_entries, new_hashes,
                mirror_list, error, log, start_hashes, start_dst, start_disk,
                walk_error, prev_done, prev_clean, prev_failed, pass_edits,
                passes, mirror_arg, database_path, cwd, old_dir>>

\* A source file's bytes are modified.
modify_source(p) ==
    /\ BetweenPasses
    /\ is_file(src_fs, p)
    /\ \E b \in Bytes \ {src_fs[p].bytes} :
          src_fs' = [src_fs EXCEPT ![p] = File(b)]
    /\ edits' = edits \cup {<<"modify", p>>}
    /\ nedits' = nedits + 1
    /\ UNCHANGED dst_fs
    /\ EnvUnchanged

\* A source file or directory is removed.
remove_source(p) ==
    /\ BetweenPasses
    /\ p # source_path /\ exists(src_fs, p)
    /\ src_fs' = RemoveTree(src_fs, p)
    /\ edits' = edits \cup { <<"remove", q>> :
                   q \in { r \in SrcPaths : IsPrefix(p, r) /\ exists(src_fs, r) } }
    /\ nedits' = nedits + 1
    /\ UNCHANGED dst_fs
    /\ EnvUnchanged

\* A mirror file is deleted out of band.
remove_mirror(p) ==
    /\ BetweenPasses
    /\ is_file(dst_fs, p)
    /\ dst_fs' = [dst_fs EXCEPT ![p] = Absent]
    /\ edits' = edits \cup {<<"unlink", p>>}
    /\ nedits' = nedits + 1
    /\ UNCHANGED src_fs
    /\ EnvUnchanged

---------------------------------------------------------------------------
\* Database::sync.

\* An entry of the log whose copy or filter run, if any, succeeded.
Clean(l) == l.result = "ok" /\ l.outcome \in {"", "success"} /\ ~l.stale

\* The start of Database::sync on a database whose hashes are db_hashes
\* and whose record lies in database_folder: the current directory is
\* remembered and changed to the folder, the accumulators are created and
\* the walk of the source tree is collected.
begin_sync(bad, db_hashes, database_folder) ==
    /\ bad = NoPath \/ is_dir(src_fs, bad)
    /\ old_dir' = cwd
    /\ cwd' = set_current_dir(cwd, database_folder)
    /\ hashes' = db_hashes
    /\ new_hashes' = EmptyMap
    /\ mirror_list' = {}
    /\ source_entries' = WalkDir(src_fs, source_path, bad)
    /\ error' = ""
    /\ phase' = "fanout"
    /\ log' = EmptyMap
    /\ start_hashes' = db_hashes
    /\ start_dst' = dst_fs
    /\ start_disk' = disk
    /\ walk_error' = bad
    /\ UNCHANGED <<prev_done, prev_clean, prev_failed>>
    /\ pass_edits' = edits
    /\ edits' = {}
    /\ passes' = passes + 1
    /\ UNCHANGED <<src_fs, dst_fs, filters, disk, nedits,
                   mirror_arg, database_path>>

\* Database::sync cannot enter the record's folder: `?` returns the Err of
\* set_current_dir before anything else is done.
begin_sync_err(db_hashes, database_folder) ==
    /\ database_folder # ""
    /\ old_dir' = cwd
    /\ hashes' = db_hashes
    /\ error' = "set_current_dir"
    /\ phase' = "failed"
    /\ start_hashes' = db_hashes
    /\ start_dst' = dst_fs
    /\ start_disk' = disk
    /\ pass_edits' = edits
    /\ edits' = {}
    /\ passes' = passes + 1
    /\ UNCHANGED <<src_fs, dst_fs, filters, disk, source_entries, new_hashes,
                   mirror_list, log, walk_error, prev_done, prev_clean,
                   prev_failed, nedits, mirror_arg, database_path, cwd>>

\* The sync command: Database::load reads the record (an Err when it is
\* missing or cannot be parsed), then Database::sync runs.
sync_start(bad, database_folder) ==
    /\ phase = "idle" /\ passes < MaxPasses
    /\ disk.state = "ok"
    /\ begin_sync(bad, disk.hashes, database_folder)

\* The sync command when the record's folder cannot be entered.
sync_start_err ==
    /\ phase = "idle" /\ passes < MaxPasses
    /\ disk.state = "ok"
    /\ \E database_folder \in DatabaseFolders :
          begin_sync_err(disk.hashes, database_folder)

\* The mirror directory holds something.
MirrorNotEmpty == \E q \in MirrorPaths \ {mirror_path} : exists(dst_fs, q)

\* An init that does not look into the mirror directory.
InitRefused_unless_mirror_checked ==
    \/ ~exists(src_fs, source_path)
    \/ disk.state # "missing"

\* The init command refuses a source that does not exist, a record that is
\* already there and a mirror directory that is not empty.
InitRefused ==
    \/ ~exists(src_fs, source_path)
    \/ disk.state # "missing"
    \/ MirrorNotEmpty

\* init refuses: nothing is created and no pass starts.
init_err ==
    /\ phase = "uninit"
    /\ InitRefused
    /\ phase' = "init_failed"
    /\ error' = "init"
    /\ UNCHANGED <<src_fs, dst_fs, filters, hashes, disk, source_entries,
                   new_hashes, mirror_list, log, start_hashes, start_dst,
                   start_disk, walk_error, prev_done, prev_clean, prev_failed,
                   edits, pass_edits, passes, nedits, mirror_arg,
                   database_path, cwd, old_dir>>

\* init accepts: an empty database is created (Database::new) and one pass
\* is run on it.
init(bad) ==
    /\ phase = "uninit"
    /\ ~InitRefused
    /\ begin_sync(bad, Database_new.hashes, parent(DerivedRecord))

\* log_progress, called under the lock of the shared counter: Ok, the Err
\* of a failed flush of standard output, or the panic of print! when
\* standard output cannot be written.
log_progress == {"ok", "log_progress", "panic"}

\* Where the pass stands after a worker's closure ended with `outcome`:
\* an Err makes try_for_each stop handing out entries and `?` returns it
\* from sync; a panic is caught by the worker pool and raised again on the
\* thread that called try_for_each, so sync unwinds (a lock the panicking
\* worker held is poisoned, and the other workers take its value with
\* into_inner and finish their entry).  Either way nothing after the loop
\* runs.
worker_ends(outcome) ==
    IF outcome = "ok" THEN "fanout" ELSE "failed"

\* One worker runs the closure of try_for_each on one entry: the entry is
\* mapped, recorded in the mirror list and handled, and log_progress prints
\* the progress bar.  The entries other workers complete while sync is on
\* its way out are the ones this model has processed before, the others
\* are never processed.
\* A closure that logs the traversal error and goes on with the other
\* entries.
worker_err_skips_entry(e) ==
    /\ phase = "fanout" /\ e \in source_entries /\ ~e.ok
    /\ source_entries' = source_entries \ {e}
    /\ UNCHANGED <<src_fs, dst_fs, filters, hashes, disk, phase, new_hashes,
                   mirror_list, error, log, start_hashes, start_dst,
                   start_disk, walk_error, prev_done, prev_clean, prev_failed,
                   edits, pass_edits, passes, nedits, mirror_arg,
                   database_path, cwd, old_dir>>

worker_err(e) ==
    /\ phase = "fanout" /\ e \in source_entries /\ ~e.ok
    /\ source_entries' = source_entries \ {e}
    /\ error' = "walk"
    /\ phase' = "failed"
    /\ UNCHANGED <<src_fs, dst_fs, filters, hashes, disk, new_hashes,
                   mirror_list, log, start_hashes, start_dst, start_disk,
                   walk_error, prev_done, prev_clean, prev_failed, edits,
                   pass_edits, passes, nedits, mirror_arg, database_path, cwd, old_dir>>

worker_dir(e) ==
    /\ phase = "fanout" /\ e \in source_entries /\ e.ok
    /\ is_dir(src_fs, e.path)
    /\ LET m == find_filter_for_entry(e.path, mirror_join(e.path), filters) IN
         /\ mirror_list' = mirror_list \cup {m.mirror}
         /\ dst_fs' = handle_dir_entry(e.path, m.mirror, dst_fs)
         /\ \E progress \in log_progress :
              /\ error' = IF progress = "ok" THEN "" ELSE progress
              /\ phase' = worker_ends(progress)
         /\ log' = insert(log, e.path,
                [kind |-> "dir", mirror |-> m.mirror, filter |-> m.filter,
                 queried |-> m.queried,
                 before |-> IF m.mirror \in DOMAIN dst_fs
                            THEN dst_fs[m.mirror] ELSE Absent,
                 after |-> IF m.mirror \in DOMAIN dst_fs
                           THEN dst_fs'[m.mirror] ELSE Absent,
                 digest |-> << >>, result |-> "ok", act |-> "none",
                 by |-> "", outcome |-> "", stale |-> FALSE])
    /\ source_entries' = source_entries \ {e}
    /\ UNCHANGED <<src_fs, filters, hashes, disk, new_hashes,
                   start_hashes, start_dst, start_disk, walk_error, prev_done,
                   prev_clean, prev_failed, edits, pass_edits, passes, nedits,
                   mirror_arg, database_path, cwd, old_dir>>

worker_file(e) ==
    /\ phase = "fanout" /\ e \in source_entries /\ e.ok
    /\ is_file(src_fs, e.path)
    /\ LET m == find_filter_for_entry(e.path, mirror_join(e.path), filters) IN
         /\ mirror_list' = mirror_list \cup {m.mirror}
         /\ \E r \in handle_file_entry(hashes, new_hashes, m.filter, e.path,
                                        m.mirror, src_fs[e.path].bytes, dst_fs),
               progress \in log_progress :
              /\ r.result # "ok" => progress = "ok"
              /\ dst_fs' = r.dst
              /\ new_hashes' = r.new_hashes
              /\ error' = IF r.result # "ok" THEN r.result
                          ELSE IF progress = "ok" THEN "" ELSE progress
              /\ phase' = worker_ends(IF r.result # "ok" THEN r.result
                                       ELSE progress)
              /\ log' = insert(log, e.path,
                     [kind |-> "file", mirror |-> m.mirror, filter |-> m.filter,
                      queried |-> m.queried,
                      before |-> dst_fs[m.mirror],
                      after |-> r.dst[m.mirror],
                      digest |-> hash_file(src_fs[e.path].bytes),
                      result |-> r.result, act |-> r.act, by |-> r.by,
                      outcome |-> r.outcome, stale |-> r.stale])
    /\ source_entries' = source_entries \ {e}
    /\ UNCHANGED <<src_fs, filters, hashes, disk, start_hashes, start_dst,
                   start_disk, walk_error, prev_done, prev_clean, prev_failed,
                   edits, pass_edits, passes, nedits, mirror_arg,
                   database_path, cwd, old_dir>>

PassUnchanged ==
    UNCHANGED <<src_fs, filters, source_entries, new_hashes, mirror_list, log,
                start_hashes, start_dst, start_disk, walk_error, prev_done,
                prev_clean, prev_failed, edits, pass_edits, passes, nedits,
                mirror_arg, database_path, cwd, old_dir>>

\* A swap that does not wait for the last worker.
publish_before_workers_finish ==
    /\ phase = "fanout" /\ error = ""
    /\ hashes' = new_hashes
    /\ phase' = "published"
    /\ UNCHANGED <<dst_fs, disk, error>>
    /\ PassUnchanged

\* Every entry returned Ok: the fresh map replaces Database.hashes.
publish ==
    /\ phase = "fanout" /\ error = "" /\ source_entries = {}
    /\ hashes' = new_hashes
    /\ phase' = "published"
    /\ UNCHANGED <<dst_fs, disk, error>>
    /\ PassUnchanged

\* self.save(..)?
save ==
    /\ phase = "published"
    /\ disk' = Record(hashes)
    /\ phase' = "saved"
    /\ UNCHANGED <<dst_fs, hashes, error>>
    /\ PassUnchanged

\* A sync that goes on to the sweep although the record was not written.
save_err_then_sweep ==
    /\ phase = "published"
    /\ disk' \in {disk, [state |-> "corrupt", hashes |-> EmptyMap]}
    /\ dst_fs' = cleanup(dst_fs, mirror_list)
    /\ error' = "save"
    /\ phase' = "failed"
    /\ UNCHANGED hashes
    /\ PassUnchanged

\* File::create or the write failed: the record is as before, or
\* truncated; sync returns the Err.
save_err ==
    /\ phase = "published"
    /\ disk' \in {disk, [state |-> "corrupt", hashes |-> EmptyMap]}
    /\ error' = "save"
    /\ phase' = "failed"
    /\ UNCHANGED <<dst_fs, hashes>>
    /\ PassUnchanged

\* What the steps after the fan-out leave alone, the current directory
\* apart.
TailUnchanged ==
    UNCHANGED <<src_fs, filters, source_entries, new_hashes, mirror_list, log,
                start_hashes, start_dst, start_disk, walk_error, prev_done,
                prev_clean, prev_failed, edits, pass_edits, passes, nedits,
                mirror_arg, database_path, old_dir>>

\* self.cleanup(&mirror_list)?, the return to old_dir and the return of
\* Ok(()).
sync_cleanup ==
    /\ phase = "saved"
    /\ dst_fs' = cleanup(dst_fs, mirror_list)
    /\ cwd' = old_dir
    /\ phase' = "done"
    /\ UNCHANGED <<hashes, disk, error>>
    /\ TailUnchanged

\* The sweep is done and old_dir cannot be entered again: `?` returns the
\* Err of set_current_dir.
sync_restore_err ==
    /\ phase = "saved"
    /\ dst_fs' = cleanup(dst_fs, mirror_list)
    /\ error' = "set_current_dir"
    /\ phase' = "failed"
    /\ UNCHANGED <<hashes, disk, cwd>>
    /\ TailUnchanged

\* The sweep meets a traversal or removal error after removing some of the
\* orphans; sync returns the Err.
sync_cleanup_err ==
    /\ phase = "saved"
    /\ \E gone \in SUBSET Orphans(dst_fs, mirror_list) :
          dst_fs' = cleanup_walk(dst_fs, gone, mirror_list)
    /\ error' = "cleanup"
    /\ phase' = "failed"
    /\ UNCHANGED <<hashes, disk>>
    /\ PassUnchanged

\* sync has returned, Ok or Err, and the command ends with it: the
\* accumulators and the loaded database are dropped, and the next command
\* is a new process started from StartDir.
sync_return ==
    /\ phase \in {"done", "failed"}
    /\ phase' = "idle"
    /\ prev_done' = (phase = "done")
    /\ prev_clean' = (phase = "done" /\ \A p \in DOMAIN log : Clean(log[p]))
    /\ prev_failed' = { p \in DOMAIN log :
                          /\ log[p].act \in {"copy", "run"}
                          /\ log[p].outcome # "success" }
    /\ hashes' = EmptyMap
    /\ new_hashes' = EmptyMap
    /\ mirror_list' = {}
    /\ source_entries' = {}
    /\ error' = ""
    /\ log' = EmptyMap
    /\ start_hashes' = EmptyMap
    /\ start_dst' = dst_fs
    /\ start_disk' = disk
    /\ walk_error' = NoPath
    /\ pass_edits' = {}
    /\ cwd' = StartDir
    /\ old_dir' = StartDir
    /\ UNCHANGED <<src_fs, dst_fs, filters, disk, edits, passes, nedits,
                   mirror_arg, database_path>>

Next ==
    \/ init_err
    \/ \E bad \in {NoPath} \cup SrcDirs : init(bad)
    \/ \E p \in SrcFiles : modify_source(p)
    \/ \E p \in SrcPaths : remove_source(p)
    \/ \E p \in MirrorPaths : remove_mirror(p)
    \/ \E bad \in {NoPath} \cup SrcDirs :
          sync_start(bad, parent(DerivedRecord))
    \/ \E e \in source_entries : worker_err(e)
    \/ \E e \in source_entries : worker_dir(e)
    \/ \E e \in source_entries : worker_file(e)
    \/ publish
    \/ save
    \/ save_err
    \/ sync_cleanup
    \/ sync_restore_err
    \/ sync_cleanup_err
    \/ sync_return

Spec == Init /\ [][Next]_vars

\* The commands of Next name the record as init derived it, by its bare
\* file name. The sync command also takes a record named with its folder,
\* and Database::sync then works from inside that folder.
sync_start_in_folder ==
    \E bad \in {NoPath} \cup SrcDirs, database_folder \in DatabaseFolders :
        database_folder # "" /\ sync_start(bad, database_folder)

DirNext ==
    \/ Next
    \/ sync_start_in_folder
    \/ sync_start_err

DirSpec == Init /\ [][DirNext]_vars

---------------------------------------------------------------------------
\* The derivation of a record path on its own: any mirror path, no pair.

PathInit ==
    /\ mirror_arg \in MirrorArgs
    /\ database_path = NotDerived
    /\ src_fs = NoSource
    /\ dst_fs = EmptyMirror
    /\ filters = << >>
    /\ hashes = EmptyMap
    /\ disk = NoRecord
    /\ phase = "uninit"
    /\ source_entries = {}
    /\ new_hashes = EmptyMap
    /\ mirror_list = {}
    /\ error = ""
    /\ log = EmptyMap
    /\ start_hashes = EmptyMap
    /\ start_dst = dst_fs
    /\ start_disk = disk
    /\ walk_error = NoPath
    /\ prev_done = FALSE
    /\ prev_clean = FALSE
    /\ prev_failed = {}
    /\ edits = {}
    /\ pass_edits = {}
    /\ passes = 0
    /\ nedits = 0
    /\ cwd = StartDir
    /\ old_dir = StartDir

derive ==
    /\ database_path = NotDerived
    /\ database_path' = database_path_from_mirror(mirror_arg)
    /\ UNCHANGED <<src_fs, dst_fs, filters, hashes, disk, phase,
                   source_entries, new_hashes, mirror_list, error, log,
                   start_hashes, start_dst, start_disk, walk_error, prev_done,
                   prev_clean, prev_failed, edits, pass_edits, passes, nedits,
                   mirror_arg, cwd, old_dir>>

PathNext == derive

PathSpec == PathInit /\ [][PathNext]_vars

---------------------------------------------------------------------------
\* Properties.

\* The file entries of the running (or last) pass whose handling got as far
\* as the skip test.
Decided == { p \in DOMAIN log : log[p].kind = "file" /\ log[p].act # "none" }

\* The map loaded at pass start holds the entry's fresh digest.
StoredDigestMatches(p) ==
    p \in DOMAIN start_hashes /\ start_hashes[p] = log[p].digest

\* C1: a processed file entry is left untouched (no copy, no filter run, the
\* mirror node as it was) if and only if the map loaded at pass start holds
\* its fresh digest and its mirror existed; in every other case it is
\* regenerated, by the matched filter if one matched and by a copy otherwise.
C1_SkipRule ==
    \A p \in Decided :
        LET l == log[p] IN
        /\ (l.act = "skip") <=> (StoredDigestMatches(p) /\ l.before # Absent)
        /\ l.act = "skip" => l.after = l.before
        /\ l.act # "skip" =>
              IF l.filter # "" THEN l.act = "run" /\ l.by = l.filter
              ELSE l.act = "copy"

\* A pass skipped one file and regenerated another whose digest was stored
\* but whose mirror was missing.
C1_Witness ==
    \E p, q \in Decided :
        /\ log[p].act = "skip"
        /\ StoredDigestMatches(q) /\ log[q].before = Absent
        /\ log[q].act \in {"copy", "run"}


\* The copies and filter runs of the running (or last) pass.
Regenerated == { p \in DOMAIN log : log[p].act \in {"copy", "run"} }

\* The pass has returned Ok.
Completed == phase = "done"

\* C2: a pass that follows a pass which completed with every copy and
\* filter run succeeding, with nothing edited in between, makes no copy and
\* no filter run and leaves the digest map and the mirror tree as they were.
C2_Idempotence ==
    (Completed /\ prev_clean /\ pass_edits = {}) =>
        /\ Regenerated = {}
        /\ hashes = start_hashes
        /\ dst_fs = start_dst

\* C3: when exactly one source file's bytes were modified after a pass that
\* completed with every copy and filter run succeeding, the next pass
\* regenerates that file's mirror and no other, and every other mirror
\* entry is as it was.
C3_ChangePropagation ==
    \A f \in SrcFiles :
        (Completed /\ prev_clean /\ pass_edits = {<<"modify", f>>}) =>
            /\ Regenerated = {f}
            /\ \A q \in MirrorPaths \ {log[f].mirror} :
                  dst_fs[q] = start_dst[q]

\* C4: after a pass that completes, the keys of the digest map are exactly
\* the source files the pass enumerated and processed successfully, each
\* with the digest computed in the pass; a file removed since the previous
\* pass has no key.
C4_FullReplacement ==
    phase = "done" =>
        /\ DOMAIN hashes =
              { p \in DOMAIN log : log[p].kind = "file" /\ Clean(log[p]) }
        /\ \A p \in DOMAIN hashes : hashes[p] = log[p].digest
        /\ \A p \in SrcPaths :
              (prev_done /\ <<"remove", p>> \in pass_edits) =>
                  p \notin DOMAIN hashes

\* The mirror path the pass maps a source path to.
MirrorOf(p) == find_filter_for_entry(p, mirror_join(p), filters).mirror

\* C5: after a pass whose sweep completed, nothing is left in the mirror
\* tree that is not in the pass's mirror list, and the mirror of every
\* source entry removed since the previous pass is gone.
C5_OrphansSwept ==
    Completed =>
        /\ \A q \in MirrorPaths : exists(dst_fs, q) => q \in mirror_list
        /\ \A p \in SrcPaths :
              (prev_done /\ <<"remove", p>> \in pass_edits) =>
                  ~exists(dst_fs, MirrorOf(p))

\* The positions of the configured filters whose ext query exits zero, and
\* of those whose query exits zero with valid UTF-8 output.
ZeroExit(ext) ==
    { i \in 1..Len(filters) :
        FilterExt(filters[i], ext).spawned /\ FilterExt(filters[i], ext).success }

Claiming(ext) ==
    { i \in ZeroExit(ext) : FilterExt(filters[i], ext).utf8 }

\* With `winners` the positions of the filters that count as claiming the
\* entry's extension: the filters are queried in configured order up to and
\* including the first winner, which is the matched filter; no later filter
\* is queried, and only the matched filter's transform is invoked.
FirstWins(p, winners) ==
    LET l == log[p] IN
    /\ \A i \in 1..Len(l.queried) : l.queried[i] = filters[i]
    /\ IF winners = {}
       THEN /\ l.filter = ""
            /\ l.act # "run"
            /\ Len(l.queried) = IF extension(p) = "" THEN 0 ELSE Len(filters)
       ELSE LET first == CHOOSE i \in winners : \A j \in winners : i <= j IN
            /\ l.filter = filters[first]
            /\ Len(l.queried) = first
            /\ l.act = "run" => l.by = filters[first]

\* C6 as claimed: for every entry the first filter, in configured order,
\* whose extension query succeeds (exits zero) is the matched filter; no
\* later filter is queried and only its transform is invoked.
C6_FirstZeroExitWins ==
    \A p \in DOMAIN log :
        FirstWins(p, IF extension(p) = "" THEN {} ELSE ZeroExit(extension(p)))

\* C6 as amended: for every entry the first filter, in configured order,
\* whose extension query exits zero with valid UTF-8 output is the matched
\* filter; no later filter is queried and only its transform is invoked.
C6_FilterPrecedence ==
    \A p \in DOMAIN log :
        FirstWins(p, IF extension(p) = "" THEN {} ELSE Claiming(extension(p)))

\* Two configured filters claim a file's extension behind one whose query
\* exits zero without valid UTF-8 output, and the first of the two has run
\* for the file.
C6_Witness ==
    \E p \in DOMAIN log :
        /\ Cardinality(Claiming(extension(p))) >= 2
        /\ ZeroExit(extension(p)) # Claiming(extension(p))
        /\ log[p].act = "run"
        /\ log[p].by = filters[CHOOSE i \in Claiming(extension(p)) :
                                  \A j \in Claiming(extension(p)) : i <= j]

\* The file entries whose matched filter was invoked and failed.
FilterFailed ==
    { p \in Decided : log[p].act = "run" /\ log[p].outcome # "success" }

\* C7 as claimed: when a matched filter's run exits non-zero or cannot be
\* spawned, the entry's worker leaves no verbatim copy at the mirror (the
\* filter is its only writer), and a stale mirror file had been removed
\* before the filter was invoked.
C7_NoFallbackCleanTarget ==
    \A p \in FilterFailed :
        /\ ~log[p].stale
        /\ log[p].after \in {Absent, File(PartialBytes)}

\* C7 as amended: when a matched filter's run exits non-zero or cannot be
\* spawned, the entry's worker leaves at the mirror nothing but what the
\* filter wrote; a stale mirror file is still there only when its removal,
\* attempted before the filter was invoked, failed.
C7_NoFallbackCopy ==
    \A p \in FilterFailed :
        /\ log[p].stale => log[p].before # Absent
        /\ log[p].after \in {Absent, File(PartialBytes)}
                             \cup (IF log[p].stale THEN {log[p].before} ELSE {})

\* A filter failed for an entry whose stale mirror had been removed: the
\* mirror is absent afterwards.
C7_Witness ==
    \E p \in FilterFailed :
        /\ log[p].before # Absent
        /\ ~log[p].stale
        /\ log[p].after = Absent

\* C8: a per-entry error (directory creation, digest computation, copy)
\* never makes the pass fail: a pass fails only on a failed change of
\* directory, a traversal error, a failed flush of the progress bar, a
\* worker's panic, a failed save or a failed sweep.
C8_PerEntryErrorsRecovered ==
    phase = "failed" =>
        error \in {"set_current_dir", "walk", "log_progress", "panic", "save",
                   "cleanup"}

\* The entries of the pass whose handling, copy or filter run failed.
FailedEntries ==
    { p \in DOMAIN log :
        log[p].result # "ok" \/ log[p].outcome \notin {"", "success"} }

\* C9: no published or persisted digest map holds a key for a source file
\* whose copy or filter run failed in the pass that produced the map.
C9_FailedEntriesExcluded ==
    /\ phase \in {"published", "saved", "done"} =>
          \A p \in FailedEntries : p \notin DOMAIN hashes
    /\ phase \in {"saved", "done"} =>
          \A p \in FailedEntries : p \notin DOMAIN disk.hashes

\* The sweep of the pass has run, to its end or to an error.
SweepRan == phase = "done" \/ (phase = "failed" /\ error = "cleanup")

\* C10: once the sweep has run, completed or failed, the record on disk
\* holds the pass's fresh digest map, which is also the map in memory; and
\* when the save failed nothing was swept: every mirror entry that no
\* worker of the pass was mapped to is as it was at pass start.
C10_PersistBeforeSweep ==
    /\ SweepRan =>
          /\ disk = [state |-> "ok", hashes |-> new_hashes]
          /\ hashes = new_hashes
    /\ (phase = "failed" /\ error = "save") =>
          \A q \in MirrorPaths \ { log[p].mirror : p \in DOMAIN log } :
              exists(start_dst, q) => dst_fs[q] = start_dst[q]

\* A sweep failed with an orphan still in place, after a pass that changed
\* the digest map: the record on disk holds the new map.
C10_Witness ==
    /\ phase = "failed" /\ error = "cleanup"
    /\ Orphans(dst_fs, mirror_list) # {}
    /\ new_hashes # start_hashes
    /\ disk.hashes = new_hashes

\* The mirror paths no worker of the pass was mapped to.
Untargeted == MirrorPaths \ { log[p].mirror : p \in DOMAIN log }

\* C11: when the walk of the source tree yielded a traversal error, the
\* pass never gets to publish: it is still fanning out or has failed, the
\* digest map in memory and the record on disk are as they were at pass
\* start, and nothing was swept (every mirror entry no worker was mapped to
\* is as it was at pass start).
C11_TraversalErrorFatal ==
    walk_error # NoPath =>
        /\ phase \in {"fanout", "failed"}
        /\ hashes = start_hashes
        /\ disk = start_disk
        /\ \A q \in Untargeted : dst_fs[q] = start_dst[q]

\* A pass failed on a traversal error with a fresh map that differs from
\* the loaded one and an orphan in the mirror tree.
C11_Witness ==
    /\ phase = "failed" /\ error = "walk"
    /\ new_hashes # hashes
    /\ Orphans(dst_fs, mirror_list \cup {mirror_path}) # {}

\* C12: after a pass that completed, every directory the pass enumerated
\* is a directory at the mirror path it was mapped to (the sweep has run
\* and has left it in place).
C12_DirectoriesMirrored ==
    Completed =>
        \A d \in DOMAIN log :
            log[d].kind = "dir" => is_dir(dst_fs, log[d].mirror)

RECURSIVE Flat(_)
Flat(cs) ==
    IF cs = << >> THEN << >>
    ELSE IF Len(cs) = 1 THEN cs[1]
    ELSE cs[1] \o <<" ">> \o Flat(Tail(cs))

\* Path separators and periods count as spaces.
Spaced(c) == c \in {" ", "/", "."}

\* The elements of a set of positions of str, in order.
RECURSIVE Pick(_, _)
Pick(str, at) ==
    IF at = {} THEN << >>
    ELSE LET i == CHOOSE j \in at : \A k \in at : j <= k
         IN  <<str[i]>> \o Pick(str, at \ {i})

\* The name position by position: the
\* characters from the first to the last one that is neither whitespace
\* nor a separator nor a period, ASCII letters in lower case, and an
\* underscore for every space, separator and period in between.
AmendedName(path) ==
    LET flat == Flat(SelectSeq(path, into_string_ok))
        solid == { i \in 1..Len(flat) :
                     ~Spaced(flat[i]) /\ ~is_whitespace(flat[i]) }
    IN  IF solid = {} THEN << >>
        ELSE LET first == CHOOSE i \in solid : \A j \in solid : i <= j
                 last == CHOOSE i \in solid : \A j \in solid : j <= i
             IN  [i \in 1..(last - first + 1) |->
                    LET c == flat[first + i - 1]
                    IN  IF Spaced(c) THEN "_"
                        ELSE IF c = "A" THEN "a" ELSE c]

\* That name with every run of underscores collapsed to one.
CollapsedName(path) ==
    LET name == AmendedName(path)
        kept == { i \in 1..Len(name) :
                    name[i] # "_" \/ (i > 1 /\ name[i - 1] # "_") }
    IN  Pick(name, kept)

\* C14 as claimed: the derived record path is the mirror path's components
\* in lower case with separators and periods as spaces, runs of spaces
\* collapsed, the words joined by single underscores, and `.mmdb` appended;
\* it holds no two consecutive underscores.
C14_CollapsedPath ==
    (database_path # NotDerived /\ database_path.ok) =>
        /\ database_path.path = CollapsedName(mirror_arg) \o Extension
        /\ \A i \in 1..(Len(database_path.path) - 1) :
              ~(database_path.path[i] = "_" /\ database_path.path[i + 1] = "_")

\* C14 as amended: the derivation fails when the mirror path has no
\* component that is valid Unicode; otherwise the record path is made of
\* the valid components, ASCII letters in lower case, joined by single
\* spaces, separators and periods turned into spaces, whitespace trimmed at
\* both ends, every space left turned into one underscore (runs are not
\* collapsed), and `.mmdb` appended.
C14_DerivedPath ==
    database_path # NotDerived =>
        IF \A i \in 1..Len(mirror_arg) : ~into_string_ok(mirror_arg[i])
        THEN ~database_path.ok
        ELSE /\ database_path.ok
             /\ database_path.path = AmendedName(mirror_arg) \o Extension

\* A record path was derived from a mirror path with an upper-case letter
\* and holds two consecutive underscores.
C14_Witness ==
    /\ database_path # NotDerived /\ database_path.ok
    /\ \E i \in 1..Len(mirror_arg) :
          \E j \in 1..Len(mirror_arg[i]) : mirror_arg[i][j] = "A"
    /\ \E i \in 1..(Len(database_path.path) - 1) :
          database_path.path[i] = "_" /\ database_path.path[i + 1] = "_"

\* C15: every enumerated entry is mapped to the mirror root joined with its
\* path below the source root; a file's matched filter changes nothing but
\* the extension of the last component, and a directory's mirror path is
\* never rewritten.
C15_OnlyFileExtensionRewritten ==
    \A p \in DOMAIN log :
        LET l == log[p]
            joined == mirror_join(p)
        IN  /\ Len(l.mirror) = Len(joined)
            /\ (l.kind = "dir" \/ l.filter = "") => l.mirror = joined
            /\ l.kind = "file" =>
                  /\ Parent(l.mirror) = Parent(joined)
                  /\ l.mirror[Len(joined)][1] = joined[Len(joined)][1]

\* C16: within one pass no two enumerated entries are mapped to the same
\* mirror path, so no two workers write, remove or produce the same mirror
\* file.
C16_InjectiveMapping ==
    \A p, q \in DOMAIN log : p # q => log[p].mirror # log[q].mirror

\* C17: a worker's panic during the fan-out does not end the pass: the
\* pass goes on to publish and persist what the workers inserted.
C17_PanicNotFatal ==
    error = "panic" => phase \in {"fanout", "published", "saved", "done"}

\* C18: while workers process entries the database's hash map (the one the
\* skip test reads) is the map loaded at pass start; within a pass it
\* changes in one step only, the swap to the fresh map after the last
\* worker has finished and before the record is written.
C18_WholeMapSwap ==
    [][/\ phase' = "fanout" => hashes' = start_hashes'
       /\ (phase \in {"fanout", "published", "saved"} /\ hashes' # hashes) =>
             /\ phase = "fanout" /\ source_entries = {}
             /\ phase' = "published"
             /\ hashes' = new_hashes
             /\ disk' = disk]_vars

\* Mid-pass, with entries still to process: the fresh map is partly built
\* and differs from the loaded map, which is not empty.
C18_Witness ==
    /\ phase = "fanout" /\ source_entries # {}
    /\ hashes # EmptyMap
    /\ new_hashes # EmptyMap /\ new_hashes # hashes

\* C19: a file whose copy or filter run failed in the previous pass, and
\* whose handling gets as far as the skip test in this pass with nothing
\* edited in between, is not skipped: the copy or the filter is invoked for
\* it again.
C19_FailedEntryRetried ==
    \A p \in prev_failed \cap Decided :
        pass_edits = {} => log[p].act \in {"copy", "run"}

\* The mirror files the pass wrote or left in place under the skip rule.
Produced ==
    { log[p].mirror : p \in { q \in Decided :
        \/ log[q].act = "skip"
        \/ log[q].act \in {"copy", "run"} /\ log[q].outcome = "success" } }

\* C20: every mirror file the pass produced, and every directory above it
\* up to the mirror root, is in the mirror list handed to the sweep, and
\* the completed sweep has left the file in place.
C20_SweepSparesProduced ==
    /\ phase = "saved" =>
          \A m \in Produced :
              \A d \in MirrorPaths : IsPrefix(d, m) => d \in mirror_list
    /\ phase = "done" =>
          \A m \in Produced : exists(dst_fs, m)

\* C21: wherever Database::sync returns, Ok or Err, the current directory
\* is the one the process was in when sync was called.
C21_WorkingDirectoryKept ==
    phase \in {"done", "failed"} => cwd = old_dir

====
